---- MODULE Spec2Model ----
(***************************************************************************)
(* Pairing and relay engine of the MultiLangTranslator bot.                *)
(*                                                                         *)
(* State: the SessionManager registry (chat_partners, chat_histories) of   *)
(* src/core/session.py and, for every handler thread, the handler it runs  *)
(* (contact_user_callback, disconnect_chat of                              *)
(* src/handlers/search_handlers.py, handle_user_message of                 *)
(* src/handlers/message_relay.py, search_partner and search_command) with   *)
(* its local variables and the messages it has sent.                       *)
(*                                                                         *)
(* Every SessionManager method runs under self.lock, so one method call is *)
(* one atomic step; a handler is a sequence of such steps and the handlers *)
(* of different threads interleave between them.                           *)
(*                                                                         *)
(* SpecLock spells the lock out (a call waits, takes the lock, runs its    *)
(* body and releases); SpecData and SpecMatch cover the user data file of  *)
(* src/data_handler.py (update_user_data, find_matching_users); SpecKinds  *)
(* relays one message of every shape.                                      *)
(***************************************************************************)
EXTENDS Integers, Sequences, FiniteSets, TLC

\* ---------------------------------------------------------------- bounds
\* Users that have a record in the user data file.
Users == {"a", "b", "c"}

\* Threads that run handlers concurrently.
Workers == {"w1", "w2"}

\* An id that has no record in the user data file.
Stranger == "z"

\* Python's None.
None == "None"

\* The local message_data of a thread that is not inside handle_user_message.
NoMessageData ==
    [from_user_id |-> None, from_name |-> None, message_type |-> None,
     content |-> None]

\* Number of updates (handler invocations) explored in one behaviour.
MaxUpdates == 2

\* Number of appends explored for one transcript in SpecHistory.
MaxAppends == 103

\* Seconds the clock advances in SpecSessions.
MaxTime == 3

\* Largest max_age handed to cleanup_expired_sessions in SpecSessions.
MaxAge == 2

\* Number of messages the spam filter is given in SpecSpam.
MaxMessages == 12

\* Number of half minutes the clock advances in SpecSpam.
MaxWaits == 3

\* security.py keeps the message times of the last minute: `now - msg_time < 60`.
SPAM_WINDOW == 60

\* security.py blocks on `len(user_messages) > 10`.
SPAM_LIMIT == 10

\* session.py keeps "only last 100 messages".
CHAT_HISTORY_LIMIT == 100

VARIABLES
    chat_partners,   \* SessionManager.chat_partners : dict user_id -> partner_id
    chat_histories,  \* SessionManager.chat_histories: dict user_id -> list of entries
    pc,              \* per thread: position in the handler it runs
    handler,         \* per thread: the handler it runs (or ran last)
    user_id,         \* per thread: local user_id, the user the update came from
    partner_id,      \* per thread: local partner_id (target_id in the contact callback)
    message_data,    \* per thread: local message_data of handle_user_message
    chat_history,    \* per thread: local chat_history of disconnect_chat
    outcome,         \* per thread: how the handler it ran last ended
    updates,         \* number of updates dispatched so far
    appended,        \* per user: entries appended since the last clear (SpecHistory)
    sessions,        \* SessionManager.sessions: dict user_id -> [state, last_activity]
    message_forwarder, \* whether the global _message_forwarder has been created
    sent,            \* per thread: what the handler it runs (or ran last) has sent
    lock,            \* SessionManager.lock: the thread that holds it, or None
    user_data_file,  \* content of config.USER_DATA_FILE: dict user_id -> record
    all_users,       \* per thread: local all_users of update_user_data
    criteria,        \* the argument of find_matching_users
    matching_users,  \* per thread: the list find_matching_users returned
    _session_manager, \* the global of session.py: the instance, or None
    session_manager, \* per thread: the instance get_session_manager returned
    constructed,     \* number of SessionManager instances constructed so far
    now,             \* time.time()
    current_time,    \* per thread: local current_time of cleanup_expired_sessions
    max_age,         \* per thread: argument max_age of cleanup_expired_sessions
    blocked_users,   \* SpamFilter.blocked_users
    message_counts,  \* SpamFilter.message_counts: dict user_id -> list of times
    arrivals         \* per user: the times of all messages the filter was given

vars == <<chat_partners, chat_histories, pc, handler, user_id, partner_id,
          message_data, chat_history, outcome, updates, appended,
          sessions, message_forwarder, sent, lock, user_data_file, all_users,
          criteria, matching_users, _session_manager, session_manager,
          constructed, now, current_time, max_age, blocked_users,
          message_counts, arrivals>>

\* The user data file and the locals of the data_handler functions that
\* work on it.
store == <<user_data_file, all_users, criteria, matching_users>>

\* The global instance of SessionManager and what its callers hold.
singleton == <<_session_manager, session_manager, constructed>>

\* The clock and the locals of cleanup_expired_sessions that depend on it.
clock == <<now, current_time, max_age>>

\* The state of the SpamFilter of src/core/security.py.
spam == <<blocked_users, message_counts, arrivals>>

\* What the handlers and the data_handler functions take as given: one
\* SessionManager instance, one moment in time, and a spam filter that has
\* run before them.
aside == <<singleton, clock, spam>>

\* What no handler of the pairing engine writes: no caller of
\* set_session_state or clear_session exists, handlers call
\* get_message_forwarder() without a bot, the lock is free between two
\* method calls, and the handlers only read the user data file.
fixed == <<sessions, message_forwarder, lock, store, aside>>

registry == <<chat_partners, chat_histories>>

\* ------------------------------------------------------- user directory
\* data_handler.get_user_data: the record of a known user, {} otherwise.
\* The directory is read-only for the pairing engine.
get_user_data(uid) ==
    IF uid \in Users
    THEN [name |-> uid, profile_complete |-> TRUE, blocked |-> FALSE]
    ELSE <<>>

\* The "status" field of a record of the user data file ("idle" when the
\* field is missing); no code under src/ writes it.  In the file explored
\* here the record of "c" carries "searching".
user_status(uid) == IF uid = "c" THEN "searching" ELSE "idle"

\* The order of the records in the user data file.
UserOrder == <<"a", "b", "c">>

\* data_handler.get_all_users (the second definition, which replaces the
\* first at import): a list with one dict for every user whose profile is
\* complete, who is not blocked and whose status is "searching".
get_all_users ==
    LET listed(uid) == /\ get_user_data(uid).profile_complete
                       /\ ~get_user_data(uid).blocked
                       /\ user_status(uid) = "searching"
        ids == SelectSeq(UserOrder, listed)
    IN  [i \in 1..Len(ids) |-> [user_id |-> ids[i],
                                 name    |-> get_user_data(ids[i]).name]]

\* ------------------------------------------------------- SessionManager
\* dict without one key (del d[k]).
DictDel(d, k) == [x \in (DOMAIN d) \ {k} |-> d[x]]

\* dict with d[k] = v (insert or overwrite).
DictSet(d, k, v) == [x \in (DOMAIN d) \cup {k} |-> IF x = k THEN v ELSE d[x]]

get_chat_partner(uid) ==
    IF uid \in DOMAIN chat_partners THEN chat_partners[uid] ELSE None

\* New value of chat_partners after set_chat_partner(user_id, partner_id).
set_chat_partner_partners(uid, partner) ==
    DictSet(chat_partners, uid, partner)

\* New value of chat_histories after set_chat_partner(user_id, partner_id):
\* the history is initialised only when the key is missing.
set_chat_partner_histories(hist, uid) ==
    IF uid \notin DOMAIN hist THEN DictSet(hist, uid, <<>>) ELSE hist

clear_chat_partner(uid) ==
    IF uid \in DOMAIN chat_partners
    THEN DictDel(chat_partners, uid)
    ELSE chat_partners

\* The last n elements of s (Python s[-n:], n > 0).
LastN(s, n) == IF Len(s) > n THEN SubSeq(s, Len(s) - n + 1, Len(s)) ELSE s

\* Mutant: add_message_to_history without the trim of lines 82-83.
add_message_to_history_uncapped(hist, uid, entry) ==
    LET h0 == IF uid \notin DOMAIN hist THEN <<>> ELSE hist[uid]
    IN  DictSet(hist, uid, Append(h0, entry))

\* Mutant: add_message_to_history trimming with [:100] (keeps the oldest).
add_message_to_history_keepfirst(hist, uid, entry) ==
    LET h0 == IF uid \notin DOMAIN hist THEN <<>> ELSE hist[uid]
        h1 == Append(h0, entry)
        h2 == IF Len(h1) > CHAT_HISTORY_LIMIT
              THEN SubSeq(h1, 1, CHAT_HISTORY_LIMIT) ELSE h1
    IN  DictSet(hist, uid, h2)

\* New value of chat_histories after add_message_to_history(user_id, message_data).
add_message_to_history(hist, uid, entry) ==
    LET h0 == IF uid \notin DOMAIN hist THEN <<>> ELSE hist[uid]
        h1 == Append(h0, entry)
        h2 == IF Len(h1) > CHAT_HISTORY_LIMIT THEN LastN(h1, CHAT_HISTORY_LIMIT) ELSE h1
    IN  DictSet(hist, uid, h2)

get_chat_history(uid) ==
    IF uid \in DOMAIN chat_histories THEN chat_histories[uid] ELSE <<>>

clear_chat_history(hist, uid) ==
    IF uid \in DOMAIN hist THEN DictDel(hist, uid) ELSE hist

\* The "state" of the user's session, None when the user has no session.
get_session_state(uid) ==
    IF uid \in DOMAIN sessions THEN sessions[uid].state ELSE None

\* New value of sessions after set_session_state(user_id, state): the
\* record holds the state and the time of the call.
set_session_state(uid, state) ==
    DictSet(sessions, uid, [state |-> state, last_activity |-> now])

\* ------------------------------------------------------- outbound calls
\* The chat the oversight messages go to (config.TARGET_GROUP_ID).
Admin == "admin"

\* One outbound call of a handler: a Telegram send to chat with the text (or
\* kind of payload) text, whether it returned (ok) or raised, and, for
\* forward_chat_log, the chat_history it was called with.
Sent(chat, text, ok) == [chat |-> chat, text |-> text, ok |-> ok, body |-> <<>>]

\* message_forwarder.forward_chat_log(user_data, partner_data, chat_history):
\* ok is whether the header went out.  (The loop over the entries then reads
\* msg['sender_id'], a key no entry has; the KeyError is caught and logged
\* by forward_chat_log itself.)
forward_chat_log(history, ok) ==
    [chat |-> Admin, text |-> "chat_log", ok |-> ok, body |-> history]

\* message_forwarder.forward_connection_log(user_data, target_data); it
\* catches and logs a failed send.
forward_connection_log(ok) == Sent(Admin, "connection_log", ok)

\* Thread w starts a handler having sent msgs so far.
Sends(w, msgs) == sent' = [sent EXCEPT ![w] = msgs]

\* Thread w sends msgs on top of what its handler has sent already.
SendsMore(w, msgs) == sent' = [sent EXCEPT ![w] = @ \o msgs]

\* ------------------------------------------------------------- threads
\* A thread is free to take the next update.
Free(w) == pc[w] \in {"idle", "done"}

\* Thread w enters handler h for an update of user u.
Enter(w, h, u) ==
    /\ Free(w)
    /\ updates < MaxUpdates
    /\ updates' = updates + 1
    /\ handler' = [handler EXCEPT ![w] = h]
    /\ user_id' = [user_id EXCEPT ![w] = u]

\* Thread w moves to label inside its handler.
Goto(w, label) ==
    /\ pc' = [pc EXCEPT ![w] = label]
    /\ outcome' = [outcome EXCEPT ![w] = None]

\* The handler of thread w ends with result; its frame is dropped (user_id
\* and partner_id stay readable with the result).
Finish(w, result) ==
    /\ pc' = [pc EXCEPT ![w] = "done"]
    /\ outcome' = [outcome EXCEPT ![w] = result]
    /\ message_data' = [message_data EXCEPT ![w] = NoMessageData]
    /\ chat_history' = [chat_history EXCEPT ![w] = <<>>]

\* One SessionManager instance, handed to every thread; the clock at 0; a
\* spam filter that has seen no message.
InitAside ==
    /\ constructed = 1
    /\ _session_manager = "SessionManager_1"
    /\ session_manager = [w \in Workers |-> "SessionManager_1"]
    /\ now = 0
    /\ current_time = [w \in Workers |-> 0]
    /\ max_age = [w \in Workers |-> 0]
    /\ blocked_users = {}
    /\ message_counts = <<>>
    /\ arrivals = [u \in Users |-> <<>>]

\* The user data file the pairing engine reads (the one get_user_data
\* describes), with no data_handler call in progress and the lock free.
InitStore ==
    /\ lock = None
    /\ user_data_file = [u \in Users |-> get_user_data(u)]
    /\ all_users = [w \in Workers |-> <<>>]
    /\ criteria = <<>>
    /\ matching_users = [w \in Workers |-> <<>>]

\* The registry right after construction (lines 16-20).
EmptyRegistry ==
    /\ chat_partners = <<>>
    /\ chat_histories = <<>>

\* The registry after one undisturbed contact_user_callback of "a" naming
\* "b" on the empty registry (the state C_set2 leaves).
PairedRegistry ==
    /\ chat_partners = [x \in {"a", "b"} |-> IF x = "a" THEN "b" ELSE "a"]
    /\ chat_histories = [x \in {"a", "b"} |-> <<>>]

\* All threads idle; the registry is new or already holds the pair a-b; the
\* forwarder has been created by an earlier get_message_forwarder(bot), or
\* it has not.
Init ==
    /\ EmptyRegistry \/ PairedRegistry
    /\ pc = [w \in Workers |-> "idle"]
    /\ handler = [w \in Workers |-> None]
    /\ user_id = [w \in Workers |-> None]
    /\ partner_id = [w \in Workers |-> None]
    /\ message_data = [w \in Workers |-> NoMessageData]
    /\ chat_history = [w \in Workers |-> <<>>]
    /\ outcome = [w \in Workers |-> None]
    /\ updates = 0
    /\ appended = [u \in Users |-> <<>>]
    /\ sessions = <<>>
    /\ message_forwarder \in BOOLEAN
    /\ sent = [w \in Workers |-> <<>>]
    /\ InitAside
    /\ InitStore

\* ------------------------------------------------ contact_user_callback
\* Targets a contact button can name: callback data is "contact_<id>".
Targets == Users \cup {Stranger}

\* Mutant: contact_user_callback without the lookup of the target's record.
Contact_no_directory_check(w, u, target_id) ==
    /\ Enter(w, "contact", u)
    /\ partner_id' = [partner_id EXCEPT ![w] = target_id]
    /\ IF get_chat_partner(target_id) # None
       THEN /\ Finish(w, "partner_unavailable")
            /\ Sends(w, <<Sent(u, "user_not_found", TRUE)>>)
       ELSE /\ Goto(w, "c_set1")
            /\ Sends(w, <<>>)
            /\ UNCHANGED <<message_data, chat_history>>
    /\ UNCHANGED <<chat_partners, chat_histories, appended, fixed>>

\* Lines 153-182: look up both records, then check that the target is free;
\* either failure is answered with the text "user_not_found" (the outcome
\* keeps the two apart).
Contact(w, u, target_id) ==
    /\ Enter(w, "contact", u)
    /\ partner_id' = [partner_id EXCEPT ![w] = target_id]
    /\ IF DOMAIN get_user_data(target_id) = {}
       THEN /\ Finish(w, "user_not_found")
            /\ Sends(w, <<Sent(u, "user_not_found", TRUE)>>)
       ELSE IF get_chat_partner(target_id) # None
       THEN /\ Finish(w, "partner_unavailable")
            /\ Sends(w, <<Sent(u, "user_not_found", TRUE)>>)
       ELSE /\ Goto(w, "c_set1")
            /\ Sends(w, <<>>)
            /\ UNCHANGED <<message_data, chat_history>>
    /\ UNCHANGED <<chat_partners, chat_histories, appended, fixed>>

\* Line 185: session_manager.set_chat_partner(user_id, target_id)
C_set1(w) ==
    /\ pc[w] = "c_set1"
    /\ chat_partners' = set_chat_partner_partners(user_id[w], partner_id[w])
    /\ chat_histories' = set_chat_partner_histories(chat_histories, user_id[w])
    /\ Goto(w, "c_set2")
    /\ UNCHANGED <<handler, user_id, partner_id, message_data, chat_history,
                   updates, appended, fixed, sent>>

\* Line 186: session_manager.set_chat_partner(target_id, user_id)
C_set2(w) ==
    /\ pc[w] = "c_set2"
    /\ chat_partners' = set_chat_partner_partners(partner_id[w], user_id[w])
    /\ chat_histories' = set_chat_partner_histories(chat_histories, partner_id[w])
    /\ Goto(w, "c_notify")
    /\ UNCHANGED <<handler, user_id, partner_id, message_data, chat_history,
                   updates, appended, fixed, sent>>

\* Mutant: contact_user_callback undoing the pairing when the notification
\* of the target fails.
C_notify_rolls_back(w) ==
    /\ pc[w] = "c_notify"
    /\ \/ /\ Finish(w, "contact_raised")
          /\ SendsMore(w, <<Sent(user_id[w], "contact_established", FALSE)>>)
          /\ UNCHANGED chat_partners
       \/ \E notified \in BOOLEAN :
             /\ Finish(w, "contact_established")
             /\ chat_partners' =
                  (IF notified THEN chat_partners
                   ELSE DictDel(DictDel(chat_partners, user_id[w]), partner_id[w]))
             /\ IF message_forwarder
                THEN \E logged \in BOOLEAN :
                       SendsMore(w,
                         <<Sent(user_id[w], "contact_established", TRUE),
                           Sent(partner_id[w], "new_contact", notified),
                           forward_connection_log(logged)>>)
                ELSE SendsMore(w,
                       <<Sent(user_id[w], "contact_established", TRUE),
                         Sent(partner_id[w], "new_contact", notified)>>)
    /\ UNCHANGED <<chat_histories, handler, user_id, partner_id,
                   updates, appended, fixed>>

\* Lines 188-211: answer the caller (an exception ends the handler), notify
\* the target and, when there is a forwarder, forward the connection log
\* (the failures of these two are logged).
C_notify(w) ==
    /\ pc[w] = "c_notify"
    /\ \/ /\ Finish(w, "contact_raised")
          /\ SendsMore(w, <<Sent(user_id[w], "contact_established", FALSE)>>)
       \/ \E notified \in BOOLEAN :
             /\ Finish(w, "contact_established")
             /\ IF message_forwarder
                THEN \E logged \in BOOLEAN :
                       SendsMore(w,
                         <<Sent(user_id[w], "contact_established", TRUE),
                           Sent(partner_id[w], "new_contact", notified),
                           forward_connection_log(logged)>>)
                ELSE SendsMore(w,
                       <<Sent(user_id[w], "contact_established", TRUE),
                         Sent(partner_id[w], "new_contact", notified)>>)
    /\ UNCHANGED <<chat_partners, chat_histories, handler, user_id, partner_id,
                   updates, appended, fixed>>

\* -------------------------------------------------- handle_user_message
\* Mutant: the if/elif chain probing message.photo before message.text.
KindOrder_photo_first ==
    <<"photo", "text", "document", "video", "audio", "voice", "sticker",
      "location">>

\* The fields handle_user_message probes, in the order of its if/elif chain.
KindOrder == <<"text", "photo", "document", "video", "audio", "voice",
               "sticker", "location">>

\* Inbound messages: the set of fields that are present (truthy), and the
\* text body when there is one.
Messages ==
    { [fields |-> {"text"}, text |-> "hi"],
      [fields |-> {"photo"}, text |-> None],
      [fields |-> {}, text |-> None] }

\* Lines 45-131: the first branch of the if/elif chain whose field is present;
\* None when the else branch (unsupported message type) is taken.
MessageKind(m) ==
    IF \E i \in 1..Len(KindOrder) : KindOrder[i] \in m.fields
    THEN KindOrder[CHOOSE i \in 1..Len(KindOrder) :
                     /\ KindOrder[i] \in m.fields
                     /\ \A j \in 1..(i - 1) : KindOrder[j] \notin m.fields]
    ELSE None

\* The "content" each branch stores in message_data.
MessageContent(m) ==
    CASE MessageKind(m) = "text"     -> m.text
      [] MessageKind(m) = "photo"    -> "Photo"
      [] MessageKind(m) = "document" -> "Document: Unknown"
      [] MessageKind(m) = "video"    -> "Video"
      [] MessageKind(m) = "audio"    -> "Audio"
      [] MessageKind(m) = "voice"    -> "Voice message"
      [] MessageKind(m) = "sticker"  -> "Sticker: "
      [] MessageKind(m) = "location" -> "Location: 0, 0"
      [] OTHER                       -> ""

\* Lines 36-41 and the assignments of the chosen branch.
MessageData(u, m) ==
    [from_user_id |-> u,
     from_name    |-> get_user_data(u).name,
     message_type |-> IF MessageKind(m) = None THEN "text" ELSE MessageKind(m),
     content      |-> MessageContent(m)]

\* Mutant: handle_user_message without the early return of lines 27-30.
Relay_no_partner_check(w, u, m) ==
    /\ Enter(w, "relay", u)
    /\ partner_id' = [partner_id EXCEPT ![w] = get_chat_partner(u)]
    /\ IF MessageKind(m) = None
       THEN Finish(w, "unsupported")
       ELSE /\ message_data' = [message_data EXCEPT ![w] = MessageData(u, m)]
            /\ Goto(w, "r_send")
            /\ UNCHANGED chat_history
    /\ Sends(w, <<>>)
    /\ UNCHANGED <<chat_partners, chat_histories, appended, fixed>>

\* Lines 16-41 and the branch selection of lines 43-135: the partner lookup,
\* the early return for an unpaired sender, the return for an unsupported
\* message.
Relay(w, u, m) ==
    /\ Enter(w, "relay", u)
    /\ IF get_chat_partner(u) = None
       THEN /\ partner_id' = [partner_id EXCEPT ![w] = None]
            /\ Finish(w, "ignored")
       ELSE /\ partner_id' = [partner_id EXCEPT ![w] = get_chat_partner(u)]
            /\ IF MessageKind(m) = None
               THEN Finish(w, "unsupported")
               ELSE /\ message_data' = [message_data EXCEPT ![w] = MessageData(u, m)]
                    /\ Goto(w, "r_send")
                    /\ UNCHANGED chat_history
    /\ Sends(w, <<>>)
    /\ UNCHANGED <<chat_partners, chat_histories, appended, fixed>>

\* The context.bot method each branch calls (lines 50, 61, 72, 83, 94, 105,
\* 116, 126), by the message_type the branch stores.
send_method(message_type) ==
    CASE message_type = "text"     -> "send_message"
      [] message_type = "photo"    -> "send_photo"
      [] message_type = "document" -> "send_document"
      [] message_type = "video"    -> "send_video"
      [] message_type = "audio"    -> "send_audio"
      [] message_type = "voice"    -> "send_voice"
      [] message_type = "sticker"  -> "send_sticker"
      [] message_type = "location" -> "send_location"

\* What the send of the chosen branch and, when it raised, the failure
\* notice add to the messages of thread w.
RelaySends(w, delivered, noticed) ==
    IF delivered
    THEN <<Sent(partner_id[w], send_method(message_data[w].message_type), TRUE)>>
    ELSE <<Sent(partner_id[w], send_method(message_data[w].message_type), FALSE),
           Sent(user_id[w], "message_delivery_failed", noticed)>>

\* Mutant: handle_user_message recording the message before the send, so
\* that a failed forward leaves the entry in the sender's transcript.
R_send_records_first(w) ==
    /\ pc[w] = "r_send"
    /\ \/ /\ Goto(w, "r_add1")
          /\ SendsMore(w, RelaySends(w, TRUE, TRUE))
          /\ UNCHANGED <<message_data, chat_history, chat_histories>>
       \/ \E noticed \in BOOLEAN :
             /\ chat_histories' =
                  add_message_to_history(chat_histories, user_id[w],
                                         message_data[w])
             /\ Finish(w, IF noticed THEN "message_delivery_failed"
                                     ELSE "notice_failed")
             /\ SendsMore(w, RelaySends(w, FALSE, noticed))
    /\ UNCHANGED <<chat_partners, handler, user_id, partner_id, updates,
                   appended, fixed>>

\* The context.bot.send_* call of the chosen branch; when it raises, the
\* except block of lines 143-153 tries to tell the sender.
R_send(w) ==
    /\ pc[w] = "r_send"
    /\ \/ /\ Goto(w, "r_add1")
          /\ SendsMore(w, RelaySends(w, TRUE, TRUE))
          /\ UNCHANGED <<message_data, chat_history>>
       \/ \E noticed \in BOOLEAN :
             /\ Finish(w, IF noticed THEN "message_delivery_failed"
                                     ELSE "notice_failed")
             /\ SendsMore(w, RelaySends(w, FALSE, noticed))
    /\ UNCHANGED <<chat_partners, chat_histories, handler, user_id, partner_id,
                   updates, appended, fixed>>

\* Line 138: session_manager.add_message_to_history(user_id, message_data)
R_add1(w) ==
    /\ pc[w] = "r_add1"
    /\ chat_histories' =
         add_message_to_history(chat_histories, user_id[w], message_data[w])
    /\ Goto(w, "r_add2")
    /\ UNCHANGED <<chat_partners, handler, user_id, partner_id, message_data,
                   chat_history, updates, appended, fixed, sent>>

\* Mutant: line 139 appending to user_id a second time instead of partner_id.
R_add2_sender_twice(w) ==
    /\ pc[w] = "r_add2"
    /\ chat_histories' =
         add_message_to_history(chat_histories, user_id[w], message_data[w])
    /\ Finish(w, "relayed")
    /\ UNCHANGED <<chat_partners, handler, user_id, partner_id, updates,
                   appended, fixed, sent>>

\* Line 139: session_manager.add_message_to_history(partner_id, message_data)
R_add2(w) ==
    /\ pc[w] = "r_add2"
    /\ chat_histories' =
         add_message_to_history(chat_histories, partner_id[w], message_data[w])
    /\ Finish(w, "relayed")
    /\ UNCHANGED <<chat_partners, handler, user_id, partner_id, updates,
                   appended, fixed, sent>>

\* ------------------------------------------------------ disconnect_chat
\* Mutant: disconnect_chat without the early return of lines 110-115.
Disconnect_no_early_return(w, u) ==
    /\ Enter(w, "disconnect", u)
    /\ partner_id' = [partner_id EXCEPT ![w] = get_chat_partner(u)]
    /\ Goto(w, "d_hist")
    /\ Sends(w, <<>>)
    /\ UNCHANGED <<message_data, chat_history>>
    /\ UNCHANGED <<chat_partners, chat_histories, appended, fixed>>

\* Lines 102-115: the partner lookup and the early return.
Disconnect(w, u) ==
    /\ Enter(w, "disconnect", u)
    /\ IF get_chat_partner(u) = None
       THEN /\ partner_id' = [partner_id EXCEPT ![w] = None]
            /\ Finish(w, "no_active_chat")
            /\ Sends(w, <<Sent(u, "no_active_chat", TRUE)>>)
       ELSE /\ partner_id' = [partner_id EXCEPT ![w] = get_chat_partner(u)]
            /\ Goto(w, "d_hist")
            /\ Sends(w, <<>>)
            /\ UNCHANGED <<message_data, chat_history>>
    /\ UNCHANGED <<chat_partners, chat_histories, appended, fixed>>

\* Lines 117-127: read the caller's transcript and, when there is a
\* forwarder and the transcript is not empty, forward it (forward_chat_log
\* catches its own failures).
D_hist(w) ==
    /\ pc[w] = "d_hist"
    /\ chat_history' = [chat_history EXCEPT ![w] = get_chat_history(user_id[w])]
    /\ IF message_forwarder /\ get_chat_history(user_id[w]) # <<>>
       THEN \E logged \in BOOLEAN :
              SendsMore(w, <<forward_chat_log(get_chat_history(user_id[w]),
                                              logged)>>)
       ELSE UNCHANGED sent
    /\ Goto(w, "d_clr1")
    /\ UNCHANGED <<chat_partners, chat_histories, handler, user_id, partner_id,
                   message_data, updates, appended, fixed>>

\* Line 130: session_manager.clear_chat_partner(user_id)
D_clr1(w) ==
    /\ pc[w] = "d_clr1"
    /\ chat_partners' = clear_chat_partner(user_id[w])
    /\ Goto(w, "d_clr2")
    /\ UNCHANGED <<chat_histories, handler, user_id, partner_id, message_data,
                   chat_history, updates, appended, fixed, sent>>

\* Line 131: session_manager.clear_chat_partner(partner_id)
D_clr2(w) ==
    /\ pc[w] = "d_clr2"
    /\ chat_partners' = clear_chat_partner(partner_id[w])
    /\ Goto(w, "d_clh1")
    /\ UNCHANGED <<chat_histories, handler, user_id, partner_id, message_data,
                   chat_history, updates, appended, fixed, sent>>

\* Line 134: session_manager.clear_chat_history(user_id)
D_clh1(w) ==
    /\ pc[w] = "d_clh1"
    /\ chat_histories' = clear_chat_history(chat_histories, user_id[w])
    /\ Goto(w, "d_clh2")
    /\ UNCHANGED <<chat_partners, handler, user_id, partner_id, message_data,
                   chat_history, updates, appended, fixed, sent>>

\* Line 135: session_manager.clear_chat_history(partner_id)
D_clh2(w) ==
    /\ pc[w] = "d_clh2"
    /\ chat_histories' = clear_chat_history(chat_histories, partner_id[w])
    /\ Goto(w, "d_notify")
    /\ UNCHANGED <<chat_partners, handler, user_id, partner_id, message_data,
                   chat_history, updates, appended, fixed, sent>>

\* Lines 137-150: confirm to the caller (an exception ends the handler), then
\* notify the partner (failure is logged).
D_notify(w) ==
    /\ pc[w] = "d_notify"
    /\ \/ /\ Finish(w, "disconnect_raised")
          /\ SendsMore(w, <<Sent(user_id[w], "you_disconnected", FALSE)>>)
       \/ \E notified \in BOOLEAN :
             /\ Finish(w, "you_disconnected")
             /\ SendsMore(w,
                  <<Sent(user_id[w], "you_disconnected", TRUE),
                    Sent(partner_id[w], "partner_disconnected", notified)>>)
    /\ UNCHANGED <<chat_partners, chat_histories, handler, user_id, partner_id,
                   updates, appended, fixed>>

\* ------------------------------------------------------- search_partner
\* What a handler sees when the call it made raised AttributeError.
AttributeError == "AttributeError"

\* find_random_partner, lines 82-100: all_users is the list get_all_users
\* returns, and line 89 calls all_users.items() on it; a list has no items,
\* so the call raises AttributeError before any candidate is looked at, for
\* an empty list as for any other.
find_random_partner(current_user_id) == AttributeError

\* Lines 18-47: the profile check, the partner lookup with the early return
\* for a user who is in a chat, and the "searching" reply.
Search(w, u) ==
    /\ Enter(w, "search", u)
    /\ partner_id' = [partner_id EXCEPT ![w] = get_chat_partner(u)]
    /\ IF DOMAIN get_user_data(u) = {} \/ ~get_user_data(u).profile_complete
       THEN /\ Finish(w, "profile_incomplete")
            /\ Sends(w, <<Sent(u, "profile_incomplete", TRUE)>>)
       ELSE IF get_chat_partner(u) # None
       THEN /\ Finish(w, "already_in_chat")
            /\ Sends(w, <<Sent(u, "already_in_chat", TRUE)>>)
       ELSE /\ Goto(w, "s_find")
            /\ Sends(w, <<Sent(u, "searching_partner", TRUE)>>)
            /\ UNCHANGED <<message_data, chat_history>>
    /\ UNCHANGED <<chat_partners, chat_histories, appended, fixed>>

\* Lines 49-80: find_random_partner and the reply that depends on it.  The
\* AttributeError leaves search_partner through line 50; nothing is sent
\* after it.
S_find(w) ==
    /\ pc[w] = "s_find"
    /\ LET partner_data == find_random_partner(user_id[w])
       IN  IF partner_data = AttributeError
           THEN /\ Finish(w, "search_raised")
                /\ UNCHANGED sent
           ELSE IF partner_data = None
           THEN /\ Finish(w, "no_partners")
                /\ SendsMore(w, <<Sent(user_id[w], "no_partners", TRUE)>>)
           ELSE /\ Finish(w, "partner_found")
                /\ SendsMore(w, <<Sent(user_id[w], "partner_found", TRUE)>>)
    /\ UNCHANGED <<chat_partners, chat_histories, handler, user_id, partner_id,
                   updates, appended, fixed>>

\* ------------------------------------------------------- search_command
\* str(d) of a dict of get_all_users, as it ends up in callback data: a
\* string that is no user id.
DictRepr(d) == "{'user_id': '" \o d.user_id \o "'}"

\* user_handlers.search_command, lines 118-161 (the /search command).  It
\* asks the session manager nothing.  potential_partners keeps every dict of
\* get_all_users (a dict never equals the string user_id, so the caller's
\* own record stays in); the button carries "contact_" + str(dict).
search_command(w, u) ==
    /\ Enter(w, "search_command", u)
    /\ LET potential_partners == get_all_users
       IN  IF potential_partners = <<>>
           THEN /\ partner_id' = [partner_id EXCEPT ![w] = None]
                /\ Finish(w, "no_partners_found")
                /\ Sends(w, <<Sent(u, "no_partners_found", TRUE)>>)
           ELSE \E i \in DOMAIN potential_partners :
                  /\ partner_id' = [partner_id EXCEPT
                                      ![w] = DictRepr(potential_partners[i])]
                  /\ Finish(w, "partner_found")
                  /\ Sends(w, <<Sent(u, "partner_found", TRUE)>>)
    /\ UNCHANGED <<chat_partners, chat_histories, appended, fixed>>

\* ---------------------------------------------------------- the system
Next ==
    \/ \E w \in Workers, u \in Users, t \in Targets : Contact(w, u, t)
    \/ \E w \in Workers : C_set1(w)
    \/ \E w \in Workers : C_set2(w)
    \/ \E w \in Workers : C_notify(w)
    \/ \E w \in Workers, u \in Users, m \in Messages : Relay(w, u, m)
    \/ \E w \in Workers : R_send(w)
    \/ \E w \in Workers : R_add1(w)
    \/ \E w \in Workers : R_add2(w)
    \/ \E w \in Workers, u \in Users : Disconnect(w, u)
    \/ \E w \in Workers : D_hist(w)
    \/ \E w \in Workers : D_clr1(w)
    \/ \E w \in Workers : D_clr2(w)
    \/ \E w \in Workers : D_clh1(w)
    \/ \E w \in Workers : D_clh2(w)
    \/ \E w \in Workers : D_notify(w)
    \/ \E w \in Workers, u \in Users \cup {Stranger} : Search(w, u)
    \/ \E w \in Workers : S_find(w)
    \/ \E w \in Workers, u \in Users : search_command(w, u)

Spec == Init /\ [][Next]_vars

\* ------------------------------------------------- transcripts alone
\* Users whose transcripts SpecHistory fills.
HistoryUsers == {"a", "b"}

\* The n-th entry appended for user u: a text message whose body is n.
HistoryEntry(u, n) ==
    [from_user_id |-> u,
     from_name    |-> get_user_data(u).name,
     message_type |-> "text",
     content      |-> ToString(n)]

InitHistory ==
    /\ EmptyRegistry
    /\ pc = [w \in Workers |-> "idle"]
    /\ handler = [w \in Workers |-> None]
    /\ user_id = [w \in Workers |-> None]
    /\ partner_id = [w \in Workers |-> None]
    /\ message_data = [w \in Workers |-> NoMessageData]
    /\ chat_history = [w \in Workers |-> <<>>]
    /\ outcome = [w \in Workers |-> None]
    /\ updates = 0
    /\ appended = [u \in Users |-> <<>>]
    /\ sessions = <<>>
    /\ message_forwarder = FALSE
    /\ sent = [w \in Workers |-> <<>>]
    /\ InitAside
    /\ InitStore

\* One call add_message_to_history(u, entry).
H_add(u) ==
    /\ Len(appended[u]) < MaxAppends
    /\ LET entry == HistoryEntry(u, Len(appended[u]) + 1)
       IN  /\ chat_histories' = add_message_to_history(chat_histories, u, entry)
           /\ appended' = [appended EXCEPT ![u] = Append(@, entry)]
    /\ UNCHANGED <<chat_partners, pc, handler, user_id, partner_id,
                   message_data, chat_history, outcome, updates, fixed, sent>>

\* One call clear_chat_history(u).
H_clear(u) ==
    /\ chat_histories' = clear_chat_history(chat_histories, u)
    /\ appended' = [appended EXCEPT ![u] = <<>>]
    /\ UNCHANGED <<chat_partners, pc, handler, user_id, partner_id,
                   message_data, chat_history, outcome, updates, fixed, sent>>

NextHistory ==
    \/ \E u \in HistoryUsers : H_add(u)
    \/ \E u \in HistoryUsers : H_clear(u)

SpecHistory == InitHistory /\ [][NextHistory]_vars

\* ------------------------------------------- classification of a message
\* Every combination of the eight probed fields; the body is "hi" when
\* message.text is present.
AllMessages ==
    { [fields |-> f, text |-> IF "text" \in f THEN "hi" ELSE None] :
        f \in SUBSET {KindOrder[i] : i \in DOMAIN KindOrder} }

\* One update, of any user, is left to dispatch; a and b are paired.
InitKinds ==
    /\ PairedRegistry
    /\ pc = [w \in Workers |-> "idle"]
    /\ handler = [w \in Workers |-> None]
    /\ user_id = [w \in Workers |-> None]
    /\ partner_id = [w \in Workers |-> None]
    /\ message_data = [w \in Workers |-> NoMessageData]
    /\ chat_history = [w \in Workers |-> <<>>]
    /\ outcome = [w \in Workers |-> None]
    /\ updates = MaxUpdates - 1
    /\ appended = [u \in Users |-> <<>>]
    /\ sessions = <<>>
    /\ message_forwarder = FALSE
    /\ sent = [w \in Workers |-> <<>>]
    /\ InitAside
    /\ InitStore

\* handle_user_message on every message.
NextKinds ==
    \/ \E w \in Workers, u \in Users, m \in AllMessages : Relay(w, u, m)
    \/ \E w \in Workers : R_send(w)
    \/ \E w \in Workers : R_add1(w)
    \/ \E w \in Workers : R_add2(w)

SpecKinds == InitKinds /\ [][NextKinds]_vars

\* --------------------------------------------------- SessionManager.lock
\* The methods of SessionManager; the body of each is one `with self.lock:`
\* block (cleanup_expired_sessions reads the clock before it).
Methods ==
    {"get_session_state", "set_session_state", "clear_session",
     "set_chat_partner", "get_chat_partner", "clear_chat_partner",
     "add_message_to_history", "get_chat_history", "clear_chat_history",
     "cleanup_expired_sessions"}

\* The entry handle_user_message appends for a text of user uid.
TextEntry(uid) == MessageData(uid, [fields |-> {"text"}, text |-> "hi"])

\* Thread w calls method(u, v) and arrives at its with-statement.
L_call(w, method, u, v) ==
    /\ Enter(w, method, u)
    /\ partner_id' = [partner_id EXCEPT ![w] = v]
    /\ Goto(w, "l_wait")
    /\ Sends(w, <<>>)
    /\ UNCHANGED <<chat_partners, chat_histories, message_data, chat_history,
                   appended, sessions, message_forwarder, lock, store, aside>>

\* self.lock.__enter__: threading.Lock is not reentrant, whoever holds it.
L_acquire(w) ==
    /\ pc[w] = "l_wait"
    /\ lock = None
    /\ lock' = w
    /\ Goto(w, "l_body")
    /\ UNCHANGED <<chat_partners, chat_histories, handler, user_id,
                   partner_id, message_data, chat_history, updates, appended,
                   sessions, message_forwarder, sent, store, aside>>

\* The registry after the body of the method thread w is in.
L_body(w) ==
    LET u == user_id[w] IN
    /\ chat_partners' =
         (CASE handler[w] = "set_chat_partner"
                  -> set_chat_partner_partners(u, partner_id[w])
            [] handler[w] = "clear_chat_partner" -> clear_chat_partner(u)
            [] OTHER -> chat_partners)
    /\ chat_histories' =
         (CASE handler[w] = "set_chat_partner"
                  -> set_chat_partner_histories(chat_histories, u)
            [] handler[w] = "add_message_to_history"
                  -> add_message_to_history(chat_histories, u, TextEntry(u))
            [] handler[w] = "clear_chat_history"
                  -> clear_chat_history(chat_histories, u)
            [] OTHER -> chat_histories)
    /\ IF handler[w] = "cleanup_expired_sessions"
       THEN \E expired_users \in SUBSET DOMAIN sessions :
               sessions' = [x \in DOMAIN sessions \ expired_users |-> sessions[x]]
       ELSE sessions' =
              (CASE handler[w] = "set_session_state"
                       -> set_session_state(u, "searching")
                 [] handler[w] = "clear_session" -> DictDel(sessions, u)
                 [] OTHER -> sessions)

\* Mutant: a method that returns without releasing the lock.
L_exit_keeps_lock(w) ==
    /\ pc[w] = "l_body"
    /\ lock = w
    /\ L_body(w)
    /\ UNCHANGED lock
    /\ Finish(w, "returned")
    /\ UNCHANGED <<handler, user_id, partner_id, updates, appended,
                   message_forwarder, sent, store, aside>>

\* The body of the with-block and self.lock.__exit__, which releases the
\* lock however the body ends.
L_exit(w) ==
    /\ pc[w] = "l_body"
    /\ lock = w
    /\ L_body(w)
    /\ lock' = None
    /\ Finish(w, "returned")
    /\ UNCHANGED <<handler, user_id, partner_id, updates, appended,
                   message_forwarder, sent, store, aside>>

\* SessionManager right after construction, no call in progress.
InitLock ==
    /\ EmptyRegistry
    /\ pc = [w \in Workers |-> "idle"]
    /\ handler = [w \in Workers |-> None]
    /\ user_id = [w \in Workers |-> None]
    /\ partner_id = [w \in Workers |-> None]
    /\ message_data = [w \in Workers |-> NoMessageData]
    /\ chat_history = [w \in Workers |-> <<>>]
    /\ outcome = [w \in Workers |-> None]
    /\ updates = 0
    /\ appended = [u \in Users |-> <<>>]
    /\ sessions = <<>>
    /\ message_forwarder = FALSE
    /\ sent = [w \in Workers |-> <<>>]
    /\ InitAside
    /\ InitStore

\* Any thread calls any method at any time.
NextLock ==
    \/ \E w \in Workers, method \in Methods, u \in Users :
          \E v \in IF method = "set_chat_partner" THEN Users ELSE {None} :
             L_call(w, method, u, v)
    \/ \E w \in Workers : L_acquire(w)
    \/ \E w \in Workers : L_exit(w)

\* A thread that can take the lock, or can leave the with-block, is
\* scheduled eventually.
SpecLock ==
    /\ InitLock
    /\ [][NextLock]_vars
    /\ \A w \in Workers : WF_vars(L_acquire(w)) /\ WF_vars(L_exit(w))

\* ---------------------------------------------------------- data_handler
\* dict.get(key, default)
Get(d, k, default) == IF k \in DOMAIN d THEN d[k] ELSE default

\* dict.update(data) on a copy: the keys of data replace those of d.
Update(d, data) ==
    [k \in DOMAIN d \cup DOMAIN data |-> IF k \in DOMAIN data THEN data[k] ELSE d[k]]

\* The dict d without the keys outside keys.
Restrict(d, keys) == [k \in keys |-> d[k]]

\* load_json_file through load_user_data (lines 19-40, 56-58): the content
\* of the file, or the default {} when reading or decoding raised.
load_user_data(loaded) == IF loaded THEN user_data_file ELSE <<>>

\* The user_data dict of start_command (user_handlers.py lines 58-65).
StartData(uid) ==
    [user_id |-> uid, name |-> uid, language |-> "en",
     profile_complete |-> FALSE]

\* update_user_data lines 87-91 inside start_command: load the file, create
\* the record when it is missing, merge the data into it.
U_load(w, u) ==
    /\ Enter(w, "start", u)
    /\ \E loaded \in BOOLEAN :
          LET loaded_users == load_user_data(loaded) IN
          all_users' = [all_users EXCEPT ![w] =
              DictSet(loaded_users, u,
                      Update(Get(loaded_users, u, <<>>), StartData(u)))]
    /\ partner_id' = [partner_id EXCEPT ![w] = None]
    /\ Goto(w, "u_save")
    /\ Sends(w, <<>>)
    /\ UNCHANGED <<chat_partners, chat_histories, message_data, chat_history,
                   appended, sessions, message_forwarder, lock,
                   user_data_file, criteria, matching_users, aside>>

\* update_user_data line 93, save_user_data(all_users): the whole dict
\* replaces the file (save_json_file returns False when writing raised);
\* start_command then sends the welcome text.
U_save(w) ==
    /\ pc[w] = "u_save"
    /\ \E saved \in BOOLEAN :
          user_data_file' = IF saved THEN all_users[w] ELSE user_data_file
    /\ all_users' = [all_users EXCEPT ![w] = <<>>]
    /\ Finish(w, "welcome")
    /\ SendsMore(w, <<Sent(user_id[w], "welcome", TRUE)>>)
    /\ UNCHANGED <<chat_partners, chat_histories, handler, user_id,
                   partner_id, updates, appended, sessions, message_forwarder,
                   lock, criteria, matching_users, aside>>

\* The user data file holds the records of any of the users.
InitData ==
    /\ EmptyRegistry
    /\ pc = [w \in Workers |-> "idle"]
    /\ handler = [w \in Workers |-> None]
    /\ user_id = [w \in Workers |-> None]
    /\ partner_id = [w \in Workers |-> None]
    /\ message_data = [w \in Workers |-> NoMessageData]
    /\ chat_history = [w \in Workers |-> <<>>]
    /\ outcome = [w \in Workers |-> None]
    /\ updates = 0
    /\ appended = [u \in Users |-> <<>>]
    /\ sessions = <<>>
    /\ message_forwarder = FALSE
    /\ sent = [w \in Workers |-> <<>>]
    /\ InitAside
    /\ lock = None
    /\ \E present \in SUBSET Users :
          user_data_file = [u \in present |-> get_user_data(u)]
    /\ all_users = [w \in Workers |-> <<>>]
    /\ criteria = <<>>
    /\ matching_users = [w \in Workers |-> <<>>]

\* /start from any user, known to the file or not.
NextData ==
    \/ \E w \in Workers, u \in Users \cup {Stranger} : U_load(w, u)
    \/ \E w \in Workers : U_save(w)

SpecData == InitData /\ [][NextData]_vars

\* ---------------------------------------------------- find_matching_users
\* The three attributes find_matching_users filters on (lines 182-195).
MatchAttributes == {"language", "gender", "country"}

\* Mutant: find_matching_users without the country filter of lines 192-195.
find_matching_users_no_country(crit, users) ==
    IF DOMAIN crit = {} \/ DOMAIN users = {}
    THEN <<>>
    ELSE LET current_user_id == Get(crit, "user_id", "")
             match(uid, attr) ==
                 (attr \in DOMAIN crit /\ crit[attr] # "any")
                    => (attr \in DOMAIN users[uid] /\ users[uid][attr] = crit[attr])
             kept(uid) ==
                 /\ uid \in DOMAIN users
                 /\ DOMAIN users[uid] # {}
                 /\ Get(users[uid], "profile_complete", FALSE)
                 /\ ~Get(users[uid], "blocked", FALSE)
                 /\ uid # current_user_id
                 /\ \A attr \in {"language", "gender"} : match(uid, attr)
             ids == SelectSeq(UserOrder, kept)
         IN  [i \in 1..Len(ids) |->
                [user_id  |-> ids[i],
                 language |-> Get(users[ids[i]], "language", "Unknown"),
                 gender   |-> Get(users[ids[i]], "gender", "Unknown"),
                 country  |-> Get(users[ids[i]], "country", "Unknown")]]

\* find_matching_users (lines 148-215) on the dict load_user_data returned:
\* [] for empty criteria (lines 152-154) and for no users (lines 158-160);
\* otherwise, in the order of the file, every record that is not empty, has
\* a true profile_complete, no true blocked, an id other than
\* criteria["user_id"], and for every attribute the criteria give with a
\* value other than "any" the same value.
find_matching_users(crit, users) ==
    IF DOMAIN crit = {} \/ DOMAIN users = {}
    THEN <<>>
    ELSE LET current_user_id == Get(crit, "user_id", "")
             match(uid, attr) ==
                 (attr \in DOMAIN crit /\ crit[attr] # "any")
                    => (attr \in DOMAIN users[uid] /\ users[uid][attr] = crit[attr])
             kept(uid) ==
                 /\ uid \in DOMAIN users
                 /\ DOMAIN users[uid] # {}
                 /\ Get(users[uid], "profile_complete", FALSE)
                 /\ ~Get(users[uid], "blocked", FALSE)
                 /\ uid # current_user_id
                 /\ \A attr \in MatchAttributes : match(uid, attr)
             ids == SelectSeq(UserOrder, kept)
         IN  [i \in 1..Len(ids) |->
                [user_id  |-> ids[i],
                 language |-> Get(users[ids[i]], "language", "Unknown"),
                 gender   |-> Get(users[ids[i]], "gender", "Unknown"),
                 country  |-> Get(users[ids[i]], "country", "Unknown")]]

\* One call find_matching_users(criteria) by thread w.
Match(w) ==
    /\ Enter(w, "find_matching_users", Get(criteria, "user_id", None))
    /\ \E loaded \in BOOLEAN :
          /\ all_users' = [all_users EXCEPT ![w] = load_user_data(loaded)]
          /\ matching_users' = [matching_users EXCEPT ![w] =
                                  find_matching_users(criteria, all_users'[w])]
    /\ partner_id' = [partner_id EXCEPT ![w] = None]
    /\ Finish(w, "returned")
    /\ Sends(w, <<>>)
    /\ UNCHANGED <<chat_partners, chat_histories, appended, sessions,
                   message_forwarder, lock, user_data_file, criteria, aside>>

\* Records of the user data file: any of the five fields may be missing.
MatchRecords ==
    { Restrict([profile_complete |-> p, blocked |-> b, language |-> "en",
                gender |-> "m", country |-> "x"], present) :
        p \in BOOLEAN, b \in BOOLEAN,
        present \in SUBSET ({"profile_complete", "blocked"} \cup MatchAttributes) }

\* User data files: a record of a or none, with or without the record of b.
MatchFiles ==
    LET record_b == [profile_complete |-> TRUE, language |-> "ar", gender |-> "m"]
    IN  {<<>>, [b |-> record_b]}
           \cup { [u \in {"a"} |-> r] : r \in MatchRecords }
           \cup { [u \in {"a", "b"} |-> IF u = "a" THEN r ELSE record_b] :
                    r \in MatchRecords }

\* Criteria dicts: any of the four keys may be missing.
MatchCriteria ==
    { Restrict([user_id |-> "a", language |-> l, gender |-> g, country |-> c],
               present) :
        l \in {"any", "en", "ar"}, g \in {"any", "m", "f"},
        c \in {"any", "x", "y"},
        present \in SUBSET ({"user_id"} \cup MatchAttributes) }

\* Any file, any criteria, one call left to make.
InitMatch ==
    /\ EmptyRegistry
    /\ pc = [w \in Workers |-> "idle"]
    /\ handler = [w \in Workers |-> None]
    /\ user_id = [w \in Workers |-> None]
    /\ partner_id = [w \in Workers |-> None]
    /\ message_data = [w \in Workers |-> NoMessageData]
    /\ chat_history = [w \in Workers |-> <<>>]
    /\ outcome = [w \in Workers |-> None]
    /\ updates = MaxUpdates - 1
    /\ appended = [u \in Users |-> <<>>]
    /\ sessions = <<>>
    /\ message_forwarder = FALSE
    /\ sent = [w \in Workers |-> <<>>]
    /\ InitAside
    /\ lock = None
    /\ user_data_file \in MatchFiles
    /\ all_users = [w \in Workers |-> <<>>]
    /\ criteria \in MatchCriteria
    /\ matching_users = [w \in Workers |-> <<>>]

NextMatch == \E w \in Workers : Match(w)

SpecMatch == InitMatch /\ [][NextMatch]_vars

\* --------------------------------------------------- get_session_manager
\* The n-th SessionManager instance constructed in the process.
Instance(n) == "SessionManager_" \o ToString(n)

\* The handlers that call get_session_manager() (message_relay.py line 23,
\* search_handlers.py lines 33, 85, 107, 175).
Callers ==
    {"handle_user_message", "search_partner", "find_random_partner",
     "disconnect_chat", "contact_user_callback"}

\* What every step of get_session_manager leaves alone.
G_frame ==
    UNCHANGED <<chat_partners, chat_histories, partner_id, message_data,
                chat_history, appended, sessions, message_forwarder, lock,
                store, clock, spam>>

\* Line 119: `if _session_manager is None`, in handler h of thread w.
G_check(w, h, u) ==
    /\ Enter(w, h, u)
    /\ Goto(w, IF _session_manager = None THEN "g_new" ELSE "g_return")
    /\ Sends(w, <<>>)
    /\ UNCHANGED singleton
    /\ G_frame

\* Line 120: `_session_manager = SessionManager()`.
G_new(w) ==
    /\ pc[w] = "g_new"
    /\ constructed' = constructed + 1
    /\ _session_manager' = Instance(constructed + 1)
    /\ Goto(w, "g_return")
    /\ UNCHANGED <<handler, user_id, updates, sent, session_manager>>
    /\ G_frame

\* Line 121: `return _session_manager`, the value of the global by then.
G_return(w) ==
    /\ pc[w] = "g_return"
    /\ session_manager' = [session_manager EXCEPT ![w] = _session_manager]
    /\ pc' = [pc EXCEPT ![w] = "done"]
    /\ outcome' = [outcome EXCEPT ![w] = "returned"]
    /\ UNCHANGED <<handler, user_id, updates, sent, _session_manager,
                   constructed>>
    /\ G_frame

\* The process right after the import of session.py (line 114).
InitSingleton ==
    /\ EmptyRegistry
    /\ pc = [w \in Workers |-> "idle"]
    /\ handler = [w \in Workers |-> None]
    /\ user_id = [w \in Workers |-> None]
    /\ partner_id = [w \in Workers |-> None]
    /\ message_data = [w \in Workers |-> NoMessageData]
    /\ chat_history = [w \in Workers |-> <<>>]
    /\ outcome = [w \in Workers |-> None]
    /\ updates = 0
    /\ appended = [u \in Users |-> <<>>]
    /\ sessions = <<>>
    /\ message_forwarder = FALSE
    /\ sent = [w \in Workers |-> <<>>]
    /\ InitStore
    /\ constructed = 0
    /\ _session_manager = None
    /\ session_manager = [w \in Workers |-> None]
    /\ now = 0
    /\ current_time = [w \in Workers |-> 0]
    /\ max_age = [w \in Workers |-> 0]
    /\ blocked_users = {}
    /\ message_counts = <<>>
    /\ arrivals = [u \in Users |-> <<>>]

\* Handlers of any user call get_session_manager() on any thread.
NextSingleton ==
    \/ \E w \in Workers, h \in Callers, u \in Users : G_check(w, h, u)
    \/ \E w \in Workers : G_new(w)
    \/ \E w \in Workers : G_return(w)

SpecSingleton == InitSingleton /\ [][NextSingleton]_vars

\* ---------------------------------------------- cleanup_expired_sessions
\* Mutant: line 106 with `>=` in place of `>`.
cleanup_expired_sessions_at_max_age(at, age) ==
    LET expired_users ==
            {x \in DOMAIN sessions : at - sessions[x].last_activity >= age}
    IN  [x \in DOMAIN sessions \ expired_users |-> sessions[x]]

\* Lines 103-110: new value of sessions after the with-block of
\* cleanup_expired_sessions, for the current_time read at line 100.
cleanup_expired_sessions(at, age) ==
    LET expired_users ==
            {x \in DOMAIN sessions : at - sessions[x].last_activity > age}
    IN  [x \in DOMAIN sessions \ expired_users |-> sessions[x]]

\* The session states handlers would store.
SessionStates == {"searching", "chatting"}

\* What the session methods leave alone.
E_frame ==
    UNCHANGED <<chat_partners, chat_histories, partner_id, message_data,
                chat_history, appended, message_forwarder, lock, store,
                singleton, spam>>

\* A second passes.
Tick ==
    /\ now < MaxTime
    /\ now' = now + 1
    /\ UNCHANGED <<sessions, pc, handler, user_id, outcome, updates, sent,
                   current_time, max_age>>
    /\ E_frame

\* set_session_state(u, state), lines 30-37.
E_set(u, state) ==
    /\ sessions' = set_session_state(u, state)
    /\ UNCHANGED <<pc, handler, user_id, outcome, updates, sent, clock>>
    /\ E_frame

\* clear_session(u), lines 39-44.
E_clear(u) ==
    /\ sessions' = DictDel(sessions, u)
    /\ UNCHANGED <<pc, handler, user_id, outcome, updates, sent, clock>>
    /\ E_frame

\* cleanup_expired_sessions(age) up to its with-statement: line 100 reads
\* the clock.
K_time(w, age) ==
    /\ Enter(w, "cleanup_expired_sessions", None)
    /\ current_time' = [current_time EXCEPT ![w] = now]
    /\ max_age' = [max_age EXCEPT ![w] = age]
    /\ Goto(w, "k_body")
    /\ Sends(w, <<>>)
    /\ UNCHANGED <<sessions, now>>
    /\ E_frame

\* The with-block of cleanup_expired_sessions, lines 103-111.
K_body(w) ==
    /\ pc[w] = "k_body"
    /\ sessions' = cleanup_expired_sessions(current_time[w], max_age[w])
    /\ pc' = [pc EXCEPT ![w] = "done"]
    /\ outcome' = [outcome EXCEPT ![w] =
                     IF DOMAIN sessions' = DOMAIN sessions
                     THEN "nothing_expired" ELSE "cleaned_up"]
    /\ UNCHANGED <<handler, user_id, updates, sent, clock>>
    /\ E_frame

\* a and b are paired, nobody has a session, the clock starts, one cleanup
\* is left to run.
InitSessions ==
    /\ PairedRegistry
    /\ pc = [w \in Workers |-> "idle"]
    /\ handler = [w \in Workers |-> None]
    /\ user_id = [w \in Workers |-> None]
    /\ partner_id = [w \in Workers |-> None]
    /\ message_data = [w \in Workers |-> NoMessageData]
    /\ chat_history = [w \in Workers |-> <<>>]
    /\ outcome = [w \in Workers |-> None]
    /\ updates = MaxUpdates - 1
    /\ appended = [u \in Users |-> <<>>]
    /\ sessions = <<>>
    /\ message_forwarder = FALSE
    /\ sent = [w \in Workers |-> <<>>]
    /\ InitAside
    /\ InitStore

\* Sessions are set and cleared while time passes and cleanups run.
NextSessions ==
    \/ Tick
    \/ \E u \in Users, state \in SessionStates : E_set(u, state)
    \/ \E u \in Users : E_clear(u)
    \/ \E w \in Workers, age \in 0..MaxAge : K_time(w, age)
    \/ \E w \in Workers : K_body(w)

SpecSessions == InitSessions /\ [][NextSessions]_vars

\* ------------------------------------------------------ SpamFilter.filter
\* The users whose messages reach the filter.
Senders == {"a", "b"}

\* The one thread that runs the filters: the event loop of the application.
EventLoop == "w1"

\* Mutant: line 54 keeps every message time.
user_messages_unpruned(uid, at) ==
    Append(Get(message_counts, uid, <<>>), at)

\* Lines 51-57: the list message_counts[user_id] after the times a minute
\* old or older are dropped and the time of this message is added.
user_messages(uid, at) ==
    LET recent(msg_time) == at - msg_time < SPAM_WINDOW
    IN  Append(SelectSeq(Get(message_counts, uid, <<>>), recent), at)

\* What the filter leaves alone.
F_frame ==
    UNCHANGED <<chat_partners, chat_histories, partner_id, message_data,
                chat_history, appended, sessions, message_forwarder, lock,
                store, singleton, current_time, max_age, updates, sent>>

\* The filter has room for one more message of the run.
MoreMessages ==
    Len(arrivals["a"]) + Len(arrivals["b"]) + Len(arrivals["c"]) < MaxMessages

\* Half a minute passes.
Wait ==
    /\ now < MaxWaits * (SPAM_WINDOW \div 2)
    /\ now' = now + SPAM_WINDOW \div 2
    /\ UNCHANGED <<pc, handler, user_id, outcome, spam>>
    /\ F_frame

\* filter(message) for a message without from_user, lines 40-41.
F_anonymous(w) ==
    /\ pc[w] \in {"idle", "done"}
    /\ pc' = [pc EXCEPT ![w] = "done"]
    /\ handler' = [handler EXCEPT ![w] = "filter"]
    /\ user_id' = [user_id EXCEPT ![w] = None]
    /\ outcome' = [outcome EXCEPT ![w] = "accepted"]
    /\ UNCHANGED <<now, spam>>
    /\ F_frame

\* filter(message) for a message of user uid, lines 43-65, run by thread w.
F_filter(w, uid) ==
    /\ pc[w] \in {"idle", "done"}
    /\ MoreMessages
    /\ pc' = [pc EXCEPT ![w] = "done"]
    /\ handler' = [handler EXCEPT ![w] = "filter"]
    /\ user_id' = [user_id EXCEPT ![w] = uid]
    /\ arrivals' = [arrivals EXCEPT ![uid] = Append(@, now)]
    /\ IF uid \in blocked_users
       THEN /\ outcome' = [outcome EXCEPT ![w] = "rejected"]
            /\ UNCHANGED <<blocked_users, message_counts>>
       ELSE /\ message_counts' =
                 DictSet(message_counts, uid, user_messages(uid, now))
            /\ IF Len(message_counts'[uid]) > SPAM_LIMIT
               THEN /\ blocked_users' = blocked_users \cup {uid}
                    /\ outcome' = [outcome EXCEPT ![w] = "rejected"]
               ELSE /\ outcome' = [outcome EXCEPT ![w] = "accepted"]
                    /\ UNCHANGED blocked_users
    /\ UNCHANGED now
    /\ F_frame

\* A new SpamFilter (lines 34-37) at time 0.
InitSpam ==
    /\ EmptyRegistry
    /\ pc = [w \in Workers |-> "idle"]
    /\ handler = [w \in Workers |-> None]
    /\ user_id = [w \in Workers |-> None]
    /\ partner_id = [w \in Workers |-> None]
    /\ message_data = [w \in Workers |-> NoMessageData]
    /\ chat_history = [w \in Workers |-> <<>>]
    /\ outcome = [w \in Workers |-> None]
    /\ updates = 0
    /\ appended = [u \in Users |-> <<>>]
    /\ sessions = <<>>
    /\ message_forwarder = FALSE
    /\ sent = [w \in Workers |-> <<>>]
    /\ InitAside
    /\ InitStore

\* Messages of the senders and messages without a sender arrive while time
\* passes.
NextSpam ==
    \/ Wait
    \/ F_anonymous(EventLoop)
    \/ \E u \in Senders : F_filter(EventLoop, u)

SpecSpam == InitSpam /\ [][NextSpam]_vars

\* ================================================================ claims
\* Users that some registry entry maps to u.
MappedTo(u) == {x \in DOMAIN chat_partners : chat_partners[x] = u}

\* C1: symmetry. In every reachable state, for all users U and V,
\* get_chat_partner(U) = V iff get_chat_partner(V) = U.
C1_Symmetry ==
    \A u \in Users, v \in Users :
        (get_chat_partner(u) = v) <=> (get_chat_partner(v) = u)

\* C2: uniqueness. No user T has two distinct users A and B both mapped to T.
C2_Uniqueness ==
    \A t \in Users : Cardinality(MappedTo(t)) <= 1

\* The write phase of contact_user_callback (between the availability check
\* and the end of the second set_chat_partner).
Committing(w) == pc[w] \in {"c_set1", "c_set2"}

\* C3: of two concurrent contact callbacks of different users naming the
\* same target, only one gets past the availability check into the write
\* phase; the other is rejected and writes nothing.
C3_OneCommitPerTarget ==
    \A w \in Workers, v \in Workers :
        (w # v /\ Committing(w) /\ Committing(v) /\ user_id[w] # user_id[v]
           /\ partner_id[w] \notin {user_id[w], user_id[v]})
            => partner_id[w] # partner_id[v]

\* C4: a contact callback of U naming T is rejected and leaves chat_partners
\* and chat_histories unchanged whenever U or T has a partner at that time.
C4_RejectWhenEitherPaired ==
    [][\A w \in Workers, u \in Users, t \in Users :
         (Contact(w, u, t)
            /\ (get_chat_partner(u) # None \/ get_chat_partner(t) # None))
         => (pc'[w] = "done" /\ outcome'[w] = "partner_unavailable"
               /\ UNCHANGED registry)]_vars

\* C5: every transcript has at most CHAT_HISTORY_LIMIT (100) entries.
C5_HistoryCapped ==
    \A u \in DOMAIN chat_histories :
        Len(chat_histories[u]) <= CHAT_HISTORY_LIMIT

\* C5 witness: a transcript is full after more than 100 appends.
C5_Witness ==
    \E u \in DOMAIN chat_histories :
        /\ Len(chat_histories[u]) = CHAT_HISTORY_LIMIT
        /\ Len(appended[u]) > CHAT_HISTORY_LIMIT

\* The last min(k, 100) of the k entries appended to u's transcript since it
\* was last cleared, in append order.
ExpectedHistory(u) ==
    LET k == Len(appended[u])
        n == IF k > 100 THEN 100 ELSE k
    IN  [i \in 1..n |-> appended[u][k - n + i]]

\* C6: eviction is FIFO. After appending e1..ek with no clear in between the
\* transcript is exactly the last 100 of them in append order (all of them
\* when k <= 100).
C6_FifoEviction ==
    \A u \in HistoryUsers :
        /\ u \in DOMAIN chat_histories => chat_histories[u] = ExpectedHistory(u)
        /\ u \notin DOMAIN chat_histories => appended[u] = <<>>

\* C6 witness: three entries have been evicted from a transcript.
C6_Witness ==
    \E u \in DOMAIN chat_histories :
        /\ Len(appended[u]) = 103
        /\ chat_histories[u][1] = appended[u][4]
        /\ chat_histories[u][100] = appended[u][103]

\* What a relayed text or photo message m of sender u is recorded as.
ExpectedEntry(u, m) ==
    [from_user_id |-> u,
     from_name    |-> u,
     message_type |-> IF "text" \in m.fields THEN "text" ELSE "photo",
     content      |-> IF "text" \in m.fields THEN m.text ELSE "Photo"]

\* h with e appended to its transcript of user x, every other transcript as
\* it was.
WithOneMore(h, x, e) ==
    /\ DOMAIN chat_histories' = DOMAIN h \cup {x}
    /\ chat_histories'[x] = (IF x \in DOMAIN h THEN h[x] ELSE <<>>) \o <<e>>
    /\ \A y \in DOMAIN h \ {x} : chat_histories'[y] = h[y]

\* C7: a relay whose forward succeeded appends exactly one entry to the
\* sender's transcript and one to the partner's; the entry records the
\* sender, the message kind and the content; no other transcript changes.
C7_RelayRecordsOnBothSides ==
    [][\A w \in Workers :
         /\ \A u \in Users, m \in Messages :
              (pc'[w] = "r_send" /\ Relay(w, u, m))
                 => (message_data'[w] = ExpectedEntry(u, m)
                       /\ partner_id'[w] = get_chat_partner(u))
         /\ (pc[w] = "r_send" /\ pc'[w] # "done" /\ R_send(w))
              => (pc'[w] = "r_add1" /\ UNCHANGED registry
                    /\ message_data'[w] = message_data[w])
         /\ R_add1(w)
              => (WithOneMore(chat_histories, user_id[w], message_data[w])
                    /\ message_data[w].from_user_id = user_id[w]
                    /\ pc'[w] = "r_add2"
                    /\ message_data'[w] = message_data[w]
                    /\ partner_id'[w] = partner_id[w])
         /\ R_add2(w)
              => (WithOneMore(chat_histories, partner_id[w], message_data[w])
                    /\ message_data[w].from_user_id = user_id[w]
                    /\ outcome'[w] = "relayed")]_vars

\* C7 witness: a relay of "hi" has ended and the entry is the last one of
\* both the sender's and the partner's transcript.
C7_Witness ==
    \E w \in Workers :
        /\ outcome[w] = "relayed"
        /\ user_id[w] # partner_id[w]
        /\ \A x \in {user_id[w], partner_id[w]} :
             /\ get_chat_history(x) # <<>>
             /\ LET e == get_chat_history(x)[Len(get_chat_history(x))]
                IN  /\ e.from_user_id = user_id[w]
                    /\ e.message_type = "text"
                    /\ e.content = "hi"

\* C8: a relay from a user with no partner delivers nothing and leaves
\* chat_partners and chat_histories unchanged.
C8_UnpairedRelayIgnored ==
    [][updates' # updates =>
         \A u \in Users :
            get_chat_partner(u) = None =>
               \A w \in Workers, m \in Messages :
                  Relay(w, u, m)
                     => (pc'[w] = "done" /\ outcome'[w] = "ignored"
                           /\ UNCHANGED registry)]_vars

\* C8 witness: a relay of an unpaired user has ended.
C8_Witness ==
    \E w \in Workers :
        /\ handler[w] = "relay"
        /\ outcome[w] = "ignored"
        /\ get_chat_partner(user_id[w]) = None

\* C9: when the forward to the partner fails the sender is told (or the
\* notice fails too), nothing is appended to a transcript and the pairing is
\* unchanged; the handler ends there.
C9_FailedForwardChangesNothing ==
    [][\A w \in Workers :
         (R_send(w) /\ pc'[w] # "r_add1")
            => (pc'[w] = "done"
                  /\ outcome'[w] \in {"message_delivery_failed", "notice_failed"}
                  /\ UNCHANGED registry)]_vars

\* C9 witness: a relay has ended with a failed forward and a failed notice
\* while sender and partner are still paired with each other.
C9_Witness ==
    \E w \in Workers :
        /\ outcome[w] = "notice_failed"
        /\ get_chat_partner(user_id[w]) = partner_id[w]
        /\ get_chat_partner(partner_id[w]) = user_id[w]
        /\ get_chat_history(user_id[w]) = <<>>
        /\ get_chat_history(partner_id[w]) = <<>>

\* C10: once a disconnect has ended, neither former participant has a
\* transcript entry (as long as it has not been paired again), whatever
\* relay ran alongside.
C10_NoEntryAfterDisconnect ==
    \A w \in Workers :
        (handler[w] = "disconnect" /\ outcome[w] = "you_disconnected")
        => \A u \in {user_id[w], partner_id[w]} :
             (get_chat_partner(u) = None /\ MappedTo(u) = {})
                => get_chat_history(u) = <<>>

\* C11: when a disconnect of one member of a pair completes (and no contact
\* callback runs alongside that could pair a member again), both members
\* are unpaired and both transcripts are gone; a relay from a user who is
\* unpaired is ignored.
C11_DisconnectClearsBoth ==
    [][\A w \in Workers :
         /\ (D_notify(w) /\ outcome'[w] = "you_disconnected"
               /\ \A v \in Workers \ {w} : handler[v] # "contact")
              => \A u \in {user_id[w], partner_id[w]} :
                    /\ get_chat_partner(u)' = None
                    /\ u \notin DOMAIN chat_histories'
         /\ \A u \in Users, m \in Messages :
              (get_chat_partner(u) = None /\ Relay(w, u, m))
                 => outcome'[w] = "ignored"]_vars

\* C12: a disconnect of a user who has no partner answers "no_active_chat"
\* and ends there: chat_partners and chat_histories are unchanged, nothing
\* is forwarded to the admin chat and nothing is sent to any other user.
C12_IdleDisconnectIsNoOp ==
    [][updates' # updates =>
         \A u \in Users :
            get_chat_partner(u) = None =>
               \A w \in Workers :
                  Disconnect(w, u)
                     => /\ pc'[w] = "done"
                        /\ outcome'[w] = "no_active_chat"
                        /\ UNCHANGED registry
                        /\ sent'[w] = <<Sent(u, "no_active_chat", TRUE)>>]_vars

\* C12 witness: a second disconnect of a member of a pair, issued after the
\* first one had unpaired it, has ended with "no_active_chat".
C12_Witness ==
    \E w \in Workers : \E v \in Workers \ {w} :
        /\ handler[w] = "disconnect" /\ outcome[w] = "you_disconnected"
        /\ handler[v] = "disconnect" /\ outcome[v] = "no_active_chat"
        /\ user_id[v] \in {user_id[w], partner_id[w]}
        /\ sent[v] = <<Sent(user_id[v], "no_active_chat", TRUE)>>
        /\ chat_partners = <<>>

\* The forward_chat_log calls among the messages of thread w.
ChatLogs(w) == SelectSeq(sent[w], LAMBDA x : x.text = "chat_log")

\* Thread w has run disconnect_chat to its end for a user who had a partner.
Disconnected(w) ==
    handler[w] = "disconnect" /\ outcome[w] = "you_disconnected"

\* The forward_chat_log calls made by the finished disconnects of the pair
\* that the finished disconnect of thread w ended.
SessionLogs(w) ==
    LET same == {v \in Workers :
                   /\ Disconnected(v)
                   /\ {user_id[v], partner_id[v]} = {user_id[w], partner_id[w]}}
        RECURSIVE Total(_)
        Total(S) == IF S = {} THEN 0
                    ELSE LET v == CHOOSE x \in S : TRUE
                         IN  Len(ChatLogs(v)) + Total(S \ {v})
    IN  Total(same)

\* C13: with a forwarder in place, the disconnects that end one pairing hand
\* the transcripts to forward_chat_log exactly once between them, also when
\* both members disconnect at the same time and when the transcript of the
\* one who disconnects is empty.
C13_OneChatLogPerSession ==
    \A w \in Workers :
        (message_forwarder /\ Disconnected(w)) => SessionLogs(w) = 1

\* C14: what disconnect_chat read for the forwarder (its local chat_history)
\* is the caller's transcript at the moment clear_chat_history discards it:
\* no entry is appended in between and lost.
C14_DrainIsAtomic ==
    [][\A w \in Workers :
         (message_forwarder /\ D_clh1(w))
            => get_chat_history(user_id[w]) = chat_history[w]]_vars

\* C15: right after the second set_chat_partner of a contact callback of U
\* naming another user T, the transcripts of U and of T exist and are empty.
C15_CommitStartsEmptyTranscripts ==
    [][\A w \in Workers :
         (C_set2(w) /\ user_id[w] # partner_id[w])
            => \A u \in {user_id[w], partner_id[w]} :
                  /\ u \in DOMAIN chat_histories'
                  /\ chat_histories'[u] = <<>>]_vars

\* The best-effort sends: the notification of the target, the notice to the
\* partner, the connection log and the chat log.
BestEffort == {"new_contact", "partner_disconnected", "connection_log",
               "chat_log"}

\* In this step thread w made a best-effort send that failed.
FailedSideEffect(w) ==
    /\ pc[w] \in {"c_notify", "d_hist", "d_notify"}
    /\ \E i \in (Len(sent[w]) + 1)..Len(sent'[w]) :
          sent'[w][i].text \in BestEffort /\ ~sent'[w][i].ok

ContactCommitted(w) == pc[w] = "c_notify"

\* Thread w has made the two clear_chat_partner and the two
\* clear_chat_history calls of its disconnect_chat.
DisconnectCleared(w) == pc[w] = "d_notify"

\* C17: a handler sends the messages of a pairing (confirmation,
\* notification of the target, connection log) only once it has set both
\* directions, and the messages of a disconnect (chat log, confirmation,
\* notice to the partner) only once it has cleared both chat_partners
\* entries and both transcripts.
C17_SendsAfterStateChange ==
    [][\A w \in Workers :
         ~Free(w) =>
            \A i \in (Len(sent[w]) + 1)..Len(sent'[w]) :
               /\ sent'[w][i].text \in {"contact_established", "new_contact",
                                         "connection_log"}
                    => ContactCommitted(w)
               /\ sent'[w][i].text \in {"chat_log", "you_disconnected",
                                         "partner_disconnected"}
                    => DisconnectCleared(w)]_vars

\* C18: a search (the menu's search_partner or the /search command) of a
\* user who has a partner answers "already_in_chat" and ends there: no
\* candidate is offered, and chat_partners, chat_histories and the session
\* state are unchanged.
C18_SearchWhilePairedRejected ==
    [][updates' # updates =>
         \A u \in Users :
            get_chat_partner(u) # None =>
               \A w \in Workers :
                  (Search(w, u) \/ search_command(w, u))
                     => /\ pc'[w] = "done"
                        /\ outcome'[w] = "already_in_chat"
                        /\ \A i \in DOMAIN sent'[w] :
                              sent'[w][i].text # "partner_found"
                        /\ UNCHANGED <<registry, sessions>>]_vars

\* The state of user u in the machine Idle -> Searching -> Paired -> Idle,
\* read from the registry and the session state.
StateOf(u) ==
    IF get_chat_partner(u) # None THEN "paired"
    ELSE IF get_session_state(u) = "searching" THEN "searching"
    ELSE "idle"

\* C19: a search that is not turned away leaves the user Searching (an Idle
\* user moves there, a Searching user stays), and a contact callback commits
\* only for a requester who is Searching.
C19_SessionStateMachine ==
    [][\A w \in Workers :
         /\ \A u \in Users :
              (pc'[w] = "s_find" /\ Search(w, u)) => StateOf(u)' = "searching"
         /\ C_set1(w) => StateOf(user_id[w]) = "searching"]_vars

\* The users find_random_partner is written to choose from for requester u
\* (lines 88-95): listed by get_all_users, not u, and without a partner.
Eligible(u) ==
    {get_all_users[i].user_id : i \in DOMAIN get_all_users}
        \ ({u} \cup DOMAIN chat_partners)

\* C20: when no candidate is eligible, search_partner tells the requester
\* "no_partners" and ends with the requester Idle and chat_partners
\* unchanged.
C20_NoCandidateReported ==
    [][\A w \in Workers :
         (S_find(w) /\ Eligible(user_id[w]) = {})
            => /\ outcome'[w] = "no_partners"
               /\ sent'[w][Len(sent'[w])] = Sent(user_id[w], "no_partners", TRUE)
               /\ StateOf(user_id[w])' = "idle"
               /\ UNCHANGED chat_partners]_vars

\* C21: a contact whose target was paired in the meantime makes the search
\* select once more (with that target excluded); when nothing is left the
\* requester is told "no_partners".
C21_UnavailableTargetRetried ==
    [][updates' # updates =>
         \A w \in Workers : \A u \in Users : \A t \in Users \ {u} :
            (get_chat_partner(t) # None /\ Contact(w, u, t))
               => \/ pc'[w] = "s_find"
                  \/ /\ outcome'[w] = "no_partners"
                     /\ sent'[w][Len(sent'[w])] = Sent(u, "no_partners", TRUE)]_vars

\* The candidate a search reported to its requester: the contact button of
\* search_partner carries partner_data['user_id'] (line 71), the one of
\* search_command carries the text of the whole record (line 139).
Offered(w) ==
    {t \in Users : partner_id[w] \in {t, DictRepr([user_id |-> t])}}

\* C22: a reported candidate is not the requester, has a complete profile,
\* is not blocked and is unpaired when selected; "none" is reported exactly
\* when no such user exists.
C22_SelectionIsEligible ==
    [][\A w \in Workers : \A u \in Users :
         (S_find(w) \/ search_command(w, u))
            => /\ outcome'[w] = "partner_found"
                    => \E t \in Offered(w)' :
                          /\ t # user_id'[w]
                          /\ get_user_data(t).profile_complete
                          /\ ~get_user_data(t).blocked
                          /\ get_chat_partner(t) = None
               /\ outcome'[w] \in {"no_partners", "no_partners_found"}
                    <=> Eligible(user_id'[w]) = {}]_vars

\* C24: a contact that names an id without a record in the user data file
\* is answered "user_not_found" and ends there: chat_partners and
\* chat_histories are unchanged and no user is ever paired with that id.
C24_UnknownTargetNotFound ==
    [][/\ updates' # updates =>
            \A w \in Workers : \A u \in Users :
               Contact(w, u, Stranger)
                  => /\ pc'[w] = "done"
                     /\ outcome'[w] = "user_not_found"
                     /\ sent'[w] = <<Sent(u, "user_not_found", TRUE)>>
                     /\ UNCHANGED registry
       /\ \A x \in DOMAIN chat_partners' :
             x # Stranger /\ chat_partners'[x] # Stranger]_vars

\* C24 witness: a contact that named the unknown id has ended.
C24_Witness ==
    \E w \in Workers :
       /\ handler[w] = "contact"
       /\ partner_id[w] = Stranger
       /\ pc[w] = "done"
       /\ outcome[w] = "user_not_found"

\* The connection logs a thread's handler has handed to the forwarder.
ConnectionLogs(w) ==
    Cardinality({i \in DOMAIN sent[w] :
                   sent[w][i].chat = Admin /\ sent[w][i].text = "connection_log"})

\* Whether a thread's handler has addressed the given text to the given chat.
Addressed(w, chat, text) ==
    \E i \in DOMAIN sent[w] : sent[w][i].chat = chat /\ sent[w][i].text = text

\* C25: with a forwarder in place, a contact that committed the pairing ends
\* having addressed "contact_established" to the caller and "new_contact" to
\* the target and having sent one connection log; a rejected contact sends
\* no connection log.
C25_CommitNotifiesAndLogsOnce ==
    \A w \in Workers :
       (message_forwarder /\ handler[w] = "contact" /\ pc[w] = "done")
          => IF outcome[w] \in {"user_not_found", "partner_unavailable"}
             THEN ConnectionLogs(w) = 0
             ELSE /\ Addressed(w, user_id[w], "contact_established")
                  /\ Addressed(w, partner_id[w], "new_contact")
                  /\ ConnectionLogs(w) = 1

\* C28: when no handler is in progress, a user without a partner has no
\* transcript entries.
C28_TranscriptOnlyWhilePaired ==
    (\A w \in Workers : Free(w))
       => \A u \in Users :
             get_chat_partner(u) = None => get_chat_history(u) = <<>>

\* Every update so far was a message, one per thread, and each has been
\* relayed to the end.
OnlyRelaysRan ==
    /\ updates = Cardinality(Workers)
    /\ \A w \in Workers :
          handler[w] = "relay" /\ pc[w] = "done" /\ outcome[w] = "relayed"

\* C29: when no relay is in progress, two users paired with each other hold
\* the same transcript, also after they sent concurrently.
C29_TranscriptCopiesAgree ==
    OnlyRelaysRan
       => \A u, v \in Users :
             (get_chat_partner(u) = v /\ get_chat_partner(v) = u)
                => get_chat_history(u) = get_chat_history(v)

\* The kinds of a relayed message in the order of precedence, each with its
\* send operation.
KindTable ==
    <<[kind |-> "text",     send |-> "send_message"],
      [kind |-> "photo",    send |-> "send_photo"],
      [kind |-> "document", send |-> "send_document"],
      [kind |-> "video",    send |-> "send_video"],
      [kind |-> "audio",    send |-> "send_audio"],
      [kind |-> "voice",    send |-> "send_voice"],
      [kind |-> "sticker",  send |-> "send_sticker"],
      [kind |-> "location", send |-> "send_location"]>>

\* The rows of KindTable whose field is present in m and that no present
\* field precedes.
FirstPresent(m) ==
    {i \in DOMAIN KindTable :
        /\ KindTable[i].kind \in m.fields
        /\ \A j \in DOMAIN KindTable :
              KindTable[j].kind \in m.fields => i <= j}

\* C30: the message of a paired sender is classified as the first present of
\* text, photo, document, video, audio, voice, sticker, location; it is
\* forwarded with the send operation of that kind and recorded with that
\* kind. A message with none of the fields is neither forwarded nor recorded
\* and its sender gets no notice.
C30_FirstPresentKind ==
    [][/\ \A w \in Workers, u \in Users, m \in AllMessages :
             (get_chat_partner(u) # None /\ Relay(w, u, m))
                => IF FirstPresent(m) = {}
                   THEN /\ pc'[w] = "done"
                        /\ sent'[w] = <<>>
                        /\ UNCHANGED registry
                   ELSE /\ pc'[w] = "r_send"
                        /\ \E i \in FirstPresent(m) :
                              message_data'[w].message_type = KindTable[i].kind
       /\ \A w \in Workers :
             R_send(w)
                => \E i \in DOMAIN KindTable :
                      /\ KindTable[i].kind = message_data[w].message_type
                      /\ sent'[w][1].chat = partner_id[w]
                      /\ sent'[w][1].text = KindTable[i].send
       /\ \A w \in Workers :
             (R_add1(w) \/ R_add2(w))
                => \E x \in DOMAIN chat_histories' :
                      /\ chat_histories'[x] # <<>>
                      /\ chat_histories'[x][Len(chat_histories'[x])].message_type
                            = message_data[w].message_type
                      /\ \A y \in DOMAIN chat_histories' \ {x} :
                            chat_histories'[y] = chat_histories[y]]_vars

\* C30 witness: a message classified by the last branch of the chain has
\* been forwarded and recorded on both sides.
C30_Witness ==
    \E w \in Workers :
       /\ handler[w] = "relay" /\ pc[w] = "done" /\ outcome[w] = "relayed"
       /\ sent[w] = <<Sent(partner_id[w], "send_location", TRUE)>>
       /\ \A x \in {user_id[w], partner_id[w]} :
             /\ Len(get_chat_history(x)) = 1
             /\ get_chat_history(x)[1].message_type = "location"

C27_RecordNeverDeleted ==
    [][DOMAIN user_data_file \subseteq DOMAIN user_data_file']_vars

\* The users of the dict users that the criteria crit select: profile
\* complete, not blocked, not the requester, and equal to the criterion in
\* every attribute whose criterion is given and is not "any".
Selected(crit, users) ==
    {u \in DOMAIN users :
        /\ "profile_complete" \in DOMAIN users[u] /\ users[u].profile_complete
        /\ ~("blocked" \in DOMAIN users[u] /\ users[u].blocked)
        /\ ~("user_id" \in DOMAIN crit /\ crit.user_id = u)
        /\ \A attr \in {"language", "gender", "country"} :
              \/ attr \notin DOMAIN crit
              \/ crit[attr] = "any"
              \/ attr \in DOMAIN users[u] /\ users[u][attr] = crit[attr]}

\* The ids in the list a call returned.
Returned(w) == {matching_users[w][i].user_id : i \in DOMAIN matching_users[w]}

\* A call of find_matching_users by thread w has returned.
Matched(w) == handler[w] = "find_matching_users" /\ pc[w] = "done"

C31_UpdateMerges ==
    [][\A w \in Workers :
         U_save(w)
            => LET u == user_id[w] IN
               /\ \A x \in DOMAIN user_data_file \ {u} :
                     /\ x \in DOMAIN user_data_file'
                     /\ user_data_file'[x] = user_data_file[x]
               /\ u \in DOMAIN user_data_file
                     => /\ u \in DOMAIN user_data_file'
                        /\ \A k \in DOMAIN user_data_file[u] \ DOMAIN StartData(u) :
                              /\ k \in DOMAIN user_data_file'[u]
                              /\ user_data_file'[u][k] = user_data_file[u][k]
               /\ user_data_file' # user_data_file
                     => /\ u \in DOMAIN user_data_file'
                        /\ \A k \in DOMAIN StartData(u) :
                              /\ k \in DOMAIN user_data_file'[u]
                              /\ user_data_file'[u][k] = StartData(u)[k]]_vars

\* C32: the clear_chat_partner(partner_id) of a disconnect removes no edge
\* from the former partner to anyone but the user who disconnects.
C32_DisconnectRemovesOwnEdgeOnly ==
    [][\A w \in Workers :
         D_clr2(w)
            => get_chat_partner(partner_id[w]) \in {None, user_id[w]}]_vars

\* C33: a message is delivered to the partner only when, at the time of
\* the send, the registry has the sender as the partner of the receiver.
C33_DeliveryAlongMutualEdge ==
    [][\A w \in Workers :
         (pc'[w] = "r_add1" /\ R_send(w))
            => get_chat_partner(partner_id[w]) = user_id[w]]_vars

\* C34: when no handler is in progress, every entry in the transcript of a
\* paired user was sent by that user or by the user's current partner.
C34_TranscriptOfCurrentPairing ==
    (\A w \in Workers : Free(w))
       => \A u \in Users :
             get_chat_partner(u) # None
                => \A i \in DOMAIN get_chat_history(u) :
                      get_chat_history(u)[i].from_user_id
                         \in {u, get_chat_partner(u)}

\* C35: no user is the partner of itself.
C35_NoSelfPairing ==
    \A u \in DOMAIN chat_partners : chat_partners[u] # u

\* C36: any two threads that got an instance from get_session_manager got
\* the same one, and it is the one the global holds.
C36_OneSessionManager ==
    \A w, v \in Workers :
       (session_manager[w] # None /\ session_manager[v] # None)
          => /\ session_manager[w] = session_manager[v]
             /\ session_manager[w] = _session_manager

\* The sessions that are more than age seconds old at time at.
Expired(at, age) ==
    {u \in DOMAIN sessions : sessions[u].last_activity + age < at}

\* C37: the with-block of cleanup_expired_sessions removes exactly the
\* sessions that are more than max_age old at the time the call read the
\* clock, keeps every other session as it is and leaves chat_partners and
\* chat_histories unchanged.
C37_CleanupRemovesExpiredOnly ==
    [][\A w \in Workers :
         K_body(w)
            => /\ DOMAIN sessions' =
                    DOMAIN sessions \ Expired(current_time[w], max_age[w])
               /\ \A u \in DOMAIN sessions' : sessions'[u] = sessions[u]
               /\ UNCHANGED registry]_vars

\* C37 witness: a cleanup removed a session and kept the session of a user
\* who is paired; the pairing and its transcripts are in place.
C37_Witness ==
    \E w \in Workers :
       /\ handler[w] = "cleanup_expired_sessions"
       /\ pc[w] = "done"
       /\ outcome[w] = "cleaned_up"
       /\ "a" \in DOMAIN sessions
       /\ sessions["a"].last_activity + max_age[w] = current_time[w]
       /\ get_chat_partner("a") = "b" /\ get_chat_partner("b") = "a"
       /\ DOMAIN chat_histories = {"a", "b"}

\* The number of messages of user u that reached the filter less than a
\* minute before the present one.
RecentArrivals(u) ==
    Cardinality({i \in DOMAIN arrivals[u] : now - arrivals[u][i] < SPAM_WINDOW})

\* C38: a message of a user who is not blocked is rejected exactly when it
\* is the user's 11th or later message within the last 60 seconds, and
\* exactly then the user is added to blocked_users; every message of a
\* blocked user is rejected; blocked_users never loses a user.
C38_BlockedByRateForGood ==
    [][/\ blocked_users \subseteq blocked_users'
       /\ \A w \in Workers, u \in Senders :
            F_filter(w, u)
               => LET eleventh == RecentArrivals(u) + 1 > SPAM_LIMIT
                      rejected == outcome'[w] = "rejected"
                  IN  /\ u \in blocked_users => rejected
                      /\ u \notin blocked_users
                            => /\ rejected <=> eleventh
                               /\ u \in blocked_users' <=> eleventh
                      /\ eleventh => rejected /\ u \in blocked_users']_vars

\* C38 witness: a user whose first message is a minute old was blocked by
\* the 11th message of the last minute, the 12th overall.
C38_Witness ==
    \E w \in Workers :
       /\ handler[w] = "filter" /\ user_id[w] = "a"
       /\ outcome[w] = "rejected"
       /\ blocked_users = {"a"}
       /\ Len(arrivals["a"]) = SPAM_LIMIT + 2
       /\ arrivals["a"][1] + SPAM_WINDOW = now
       /\ Len(message_counts["a"]) = SPAM_LIMIT + 1
       /\ message_counts["a"][SPAM_LIMIT + 1] = now

====
